---- MODULE Spec2Model ----
(***************************************************************************)
(* Model of packages/ai-simulator/analyze_results.py: the loader, the      *)
(* validator, the sample extractor, the report sections and the export of  *)
(* the bid-analysis pipeline driven by analyze_jsonl.                      *)
(*                                                                         *)
(* Representation of the Python values:                                    *)
(*   - a dict is a TLA+ record/function over its keys; a missing key is a  *)
(*     name outside DOMAIN (d.get(k, dflt) is Get(d, k, dflt));            *)
(*   - a value that may be None (JSON null) is carried as a sequence of    *)
(*     length at most one: None is <<>> and a present value v is <<v>>;    *)
(*   - a list is a sequence; Python index i is TLA+ index i + 1;           *)
(*   - an uncaught exception is the name of its type in the variable       *)
(*     error, and the run stops (pc = "crashed").                          *)
(* The aggregates win_stats, bid_accuracy and scores that collect_samples  *)
(* also builds are not read by any caller and are left out.  The report    *)
(* sections modelled are the round insights, the overall bid accuracy, the *)
(* auction dynamics, the calibration tables and the score metrics; the     *)
(* other sections only print and change nothing the modelled ones read.    *)
(***************************************************************************)
EXTENDS Integers, Sequences, FiniteSets, TLC

VARIABLES
    path_exists,    \* filepath.exists()
    file,           \* the lines of the input file, in file order
    pc,             \* position of analyze_jsonl
    games,          \* list returned by load_games
    warnings,       \* diagnostics written to stderr, in order
    bid_samples,    \* first list returned by collect_samples
    game_samples,   \* second list returned by collect_samples
    trump_counts,   \* trump_counts of print_round_insights
    overall,        \* per agent type, what print_bid_accuracy_overall prints
    auction,        \* per agent type, the split of print_auction_dynamics
    calibration,    \* per agent type, the tables of print_calibration_tables
    score_metrics,  \* per agent type, what print_score_metrics prints
    csv_rows,       \* rows written by export_to_csv, in order
    error           \* type of the exception that ended the run, or NoError

vars == <<path_exists, file, pc, games, warnings, bid_samples, game_samples,
          trump_counts, overall, auction, calibration, score_metrics, csv_rows,
          error>>

-----------------------------------------------------------------------------
(* Bounds of the model *)

MaxLines == 3       \* lines of a file of the loader family
MaxBid == 2         \* greatest bid value of a round
MaxTricks == 2      \* greatest tricks value of a bid_accuracy entry

(* Program constants *)

HISTOGRAM_MIN_BUCKET == -6
HISTOGRAM_MAX_BUCKET == 6
NUM_PLAYERS == 4
BONUS_POINTS == 10
ALL_TRUMP_TYPES == <<"Clubs", "Diamonds", "Hearts", "Spades", "No Trumps">>
HAND_SIZE_BUCKETS ==
    <<[min_size |-> 2, max_size |-> 5, label |-> "2-5"],
      [min_size |-> 6, max_size |-> 9, label |-> "6-9"],
      [min_size |-> 10, max_size |-> 13, label |-> "10-13"]>>

-----------------------------------------------------------------------------
(* Python values *)

None == <<>>
Some(v) == <<v>>
NoError == "none"

\* d.get(k, dflt)
Get(d, k, dflt) == IF k \in DOMAIN d THEN d[k] ELSE dflt

\* the dict d without key k
Without(d, k) == [x \in DOMAIN d \ {k} |-> d[x]]

\* the dict d with key k set to v
With(d, k, v) == [x \in DOMAIN d \cup {k} |-> IF x = k THEN v ELSE d[x]]

Abs(x) == IF x < 0 THEN -x ELSE x

RECURSIVE SeqSum(_)
SeqSum(s) == IF s = <<>> THEN 0 ELSE Head(s) + SeqSum(Tail(s))

\* sum(1 for x in xs if cond(x)), given the list of the values of cond
CountTrue(flags) == Cardinality({i \in 1..Len(flags) : flags[i]})

\* the set of the elements of a list
Range(s) == {s[i] : i \in 1..Len(s)}

-----------------------------------------------------------------------------
(* normalize_trump: the argument is an Optional[str] (None or Some(s)), the  *)
(* result is a str                                                          *)

\* normalize_trump without the serde spelling
normalize_trump_no_serde(trump_val) ==
    IF trump_val = None \/ trump_val = Some("NoTrumps")
    THEN "No Trumps"
    ELSE trump_val[1]

normalize_trump(trump_val) ==
    IF trump_val = None \/ trump_val = Some("NoTrumps") \/ trump_val = Some("NO_TRUMPS")
    THEN "No Trumps"
    ELSE trump_val[1]

-----------------------------------------------------------------------------
(* load_games *)

BlankLine == [kind |-> "blank"]
BadLine == [kind |-> "bad"]
JsonLine(v) == [kind |-> "json", value |-> v]

ParseWarning(line_num) == [kind |-> "parse", line |-> line_num]
SkipWarning(game_id) == [kind |-> "skip", game_id |-> game_id]

\* the loop of load_games giving up at the first line that fails to parse
RECURSIVE load_lines_abort(_, _, _)
load_lines_abort(f, line_num, acc) ==
    IF line_num > Len(f) THEN acc
    ELSE LET line == f[line_num] IN
         IF line.kind = "blank" THEN load_lines_abort(f, line_num + 1, acc)
         ELSE IF line.kind = "json"
              THEN load_lines_abort(f, line_num + 1,
                       [acc EXCEPT !.games = Append(@, line.value)])
              ELSE [acc EXCEPT !.warnings = Append(@, ParseWarning(line_num))]

\* the for loop of load_games from line line_num on; acc = [games, warnings]
RECURSIVE load_lines(_, _, _)
load_lines(f, line_num, acc) ==
    IF line_num > Len(f) THEN acc
    ELSE LET line == f[line_num] IN
         IF line.kind = "blank" THEN load_lines(f, line_num + 1, acc)
         ELSE IF line.kind = "json"
              THEN load_lines(f, line_num + 1,
                       [acc EXCEPT !.games = Append(@, line.value)])
              ELSE load_lines(f, line_num + 1,
                       [acc EXCEPT !.warnings = Append(@, ParseWarning(line_num))])

\* result of load_games: the exception raised, the list returned, the warnings printed
load_games(exists, f) ==
    IF ~exists
    THEN [raised |-> "FileNotFoundError", games |-> <<>>, warnings |-> <<>>]
    ELSE LET r == load_lines(f, 1, [games |-> <<>>, warnings |-> <<>>]) IN
         IF r.games = <<>>
         THEN [raised |-> "ValueError", games |-> <<>>, warnings |-> r.warnings]
         ELSE [raised |-> NoError, games |-> r.games, warnings |-> r.warnings]

-----------------------------------------------------------------------------
(* validate_game_structure *)

EmptyDict == [x \in {} |-> 0]

\* key in container, for a container that is a dict or None:
\* `key in None` raises TypeError
InRaises(container) == container = None
In(key, container) == key \in DOMAIN container[1]

\* result of validate_game_structure: the exception raised, the value returned
validate_game_structure(game) ==
    IF ~({"game_id", "config", "result", "rounds"} \subseteq DOMAIN game)
    THEN [raised |-> NoError, ok |-> FALSE]
    ELSE IF InRaises(Get(game, "config", Some(EmptyDict)))
    THEN [raised |-> "TypeError", ok |-> FALSE]
    ELSE IF ~In("ai_types", Get(game, "config", Some(EmptyDict)))
    THEN [raised |-> NoError, ok |-> FALSE]
    ELSE IF InRaises(Get(game, "result", Some(EmptyDict)))
    THEN [raised |-> "TypeError", ok |-> FALSE]
    ELSE IF ~In("winner", Get(game, "result", Some(EmptyDict)))
    THEN [raised |-> NoError, ok |-> FALSE]
    ELSE [raised |-> NoError, ok |-> TRUE]

-----------------------------------------------------------------------------
(* collect_samples *)

\* the fallback loop with >= for >: a tie goes to the last seat
RECURSIVE scan_bids_last_max(_, _, _, _)
scan_bids_last_max(bids, seat, highest_bid, highest_bidder_seat) ==
    IF seat >= Len(bids) THEN highest_bidder_seat
    ELSE LET bid == bids[seat + 1] IN
         IF bid # None /\ bid[1] >= highest_bid
         THEN scan_bids_last_max(bids, seat + 1, bid[1], Some(seat))
         ELSE scan_bids_last_max(bids, seat + 1, highest_bid, highest_bidder_seat)

\* the fallback loop over bids: seat is the 0-based position reached
RECURSIVE scan_bids(_, _, _, _)
scan_bids(bids, seat, highest_bid, highest_bidder_seat) ==
    IF seat >= Len(bids) THEN highest_bidder_seat
    ELSE LET bid == bids[seat + 1] IN
         IF bid # None /\ bid[1] > highest_bid
         THEN scan_bids(bids, seat + 1, bid[1], Some(seat))
         ELSE scan_bids(bids, seat + 1, highest_bid, highest_bidder_seat)

\* highest_bidder_seat of a round: trump_selector, else the scan of the bids
highest_bidder_of(round_data) ==
    LET trump_selector == Get(round_data, "trump_selector", None)
        bids == Get(round_data, "bids", <<>>)
    IN IF trump_selector # None THEN trump_selector
       ELSE scan_bids(bids, 0, -1, None)

\* the error with the opposite sign
sample_error_swapped(actual_tricks, bid) == bid - actual_tricks

\* error = actual_tricks - bid
sample_error(actual_tricks, bid) == actual_tricks - bid

\* the flag with False for unknown
highest_bidder_flag_false(seat, highest_bidder_seat) ==
    IF highest_bidder_seat # None THEN Some(seat = highest_bidder_seat[1]) ELSE Some(FALSE)

\* (seat == highest_bidder_seat) if highest_bidder_seat is not None else None
highest_bidder_flag(seat, highest_bidder_seat) ==
    IF highest_bidder_seat # None THEN Some(seat = highest_bidder_seat[1]) ELSE None

\* (seat == trump_selector) if trump_selector is not None else None
chose_trump_flag(seat, trump_selector) ==
    IF trump_selector # None THEN Some(seat = trump_selector[1]) ELSE None

\* the sample dict built for one bid_accuracy entry ba
bid_sample(game_id, ai_types, round_idx, round_data, ba) ==
    LET hand_size == Get(round_data, "hand_size", 0)
        dealer == Get(round_data, "dealer", None)
        trump == Get(round_data, "trump", None)
        trump_selector == Get(round_data, "trump_selector", None)
        highest_bidder_seat == highest_bidder_of(round_data)
        seat == Get(ba, "seat", 0)
        ai_type == IF seat < Len(ai_types) THEN ai_types[seat + 1] ELSE "unknown"
        bid == Get(ba, "bid", 0)
        actual_tricks == Get(ba, "tricks", 0)
        err == sample_error(actual_tricks, bid)
        abs_error == Abs(err)
    IN [ai_type |-> ai_type,
        game_id |-> game_id,
        round_index |-> round_idx,
        hand_size |-> hand_size,
        seat |-> seat,
        bid |-> bid,
        actual_tricks |-> actual_tricks,
        error |-> err,
        abs_error |-> abs_error,
        trump |-> trump,
        dealer |-> dealer,
        highest_bidder |-> highest_bidder_flag(seat, highest_bidder_seat),
        chose_trump |-> chose_trump_flag(seat, trump_selector),
        exact |-> Get(ba, "exact", FALSE),
        round_score |-> IF seat < Len(Get(round_data, "scores", <<>>))
                        THEN Get(round_data, "scores",
                                 [i \in 1..NUM_PLAYERS |-> 0])[seat + 1]
                        ELSE 0]

\* the samples of one round, in bid_accuracy order
round_samples(game_id, ai_types, round_idx, round_data) ==
    LET bas == Get(round_data, "bid_accuracy", <<>>) IN
    [k \in 1..Len(bas) |-> bid_sample(game_id, ai_types, round_idx, round_data, bas[k])]

\* the samples of the rounds from round_idx (0-based) on
RECURSIVE rounds_samples(_, _, _, _)
rounds_samples(game_id, ai_types, rounds, round_idx) ==
    IF round_idx >= Len(rounds) THEN <<>>
    ELSE round_samples(game_id, ai_types, round_idx, rounds[round_idx + 1])
         \o rounds_samples(game_id, ai_types, rounds, round_idx + 1)

\* the game sample of one seat
game_sample(game_id, ai_types, winner, final_scores, seat) ==
    [ai_type |-> ai_types[seat + 1],
     game_id |-> game_id,
     seat |-> seat,
     won |-> (seat = winner),
     final_score |-> final_scores[seat + 1]]

\* the body of the loop of collect_samples for a game that passed validation:
\* the exception raised, the bid samples and the game samples it appends
extract_game(game) ==
    LET game_id == game.game_id
        result == game.result[1]
        ai_types == game.config[1].ai_types
    IN IF "final_scores" \notin DOMAIN result
       THEN [raised |-> "KeyError", bid |-> <<>>, game |-> <<>>]
       ELSE IF Len(result.final_scores) < Len(ai_types)
       THEN [raised |-> "IndexError", bid |-> <<>>, game |-> <<>>]
       ELSE [raised |-> NoError,
             bid |-> rounds_samples(game_id, ai_types, Get(game, "rounds", <<>>), 0),
             game |-> [k \in 1..Len(ai_types) |->
                         game_sample(game_id, ai_types, result.winner,
                                     result.final_scores, k - 1)]]

\* the loop of collect_samples from game i (1-based) on;
\* acc = [raised, bid_samples, game_samples, warnings]
RECURSIVE collect_from(_, _, _)
collect_from(gs, i, acc) ==
    IF i > Len(gs) THEN acc
    ELSE LET game == gs[i]
             v == validate_game_structure(game)
         IN IF v.raised # NoError THEN [acc EXCEPT !.raised = v.raised]
            ELSE IF ~v.ok
            THEN collect_from(gs, i + 1,
                     [acc EXCEPT !.warnings =
                         Append(@, SkipWarning(IF "game_id" \in DOMAIN game
                                               THEN Some(game.game_id) ELSE None))])
            ELSE LET e == extract_game(game) IN
                 IF e.raised # NoError THEN [acc EXCEPT !.raised = e.raised]
                 ELSE collect_from(gs, i + 1,
                          [acc EXCEPT !.bid_samples = @ \o e.bid,
                                      !.game_samples = @ \o e.game])

\* result of collect_samples: the exception raised, the two sample lists
\* returned, the warnings printed
collect_samples(gs) ==
    collect_from(gs, 1, [raised |-> NoError, bid_samples |-> <<>>,
                         game_samples |-> <<>>, warnings |-> <<>>])

-----------------------------------------------------------------------------
(* analyze_jsonl: detection of the agent types in use (lines 709-714) *)

\* the loop over games from game i on; acc = [raised, types]
RECURSIVE detect_from(_, _, _)
detect_from(gs, i, acc) ==
    IF i > Len(gs) THEN acc
    ELSE LET game == gs[i] IN
         IF "config" \notin DOMAIN game THEN detect_from(gs, i + 1, acc)
         ELSE IF InRaises(game.config) THEN [acc EXCEPT !.raised = "TypeError"]
         ELSE IF ~In("ai_types", game.config) THEN detect_from(gs, i + 1, acc)
         ELSE detect_from(gs, i + 1,
                  [acc EXCEPT !.types = @ \cup
                      {game.config[1].ai_types[k] :
                          k \in 1..Len(game.config[1].ai_types)}])

detect_ai_types(gs) == detect_from(gs, 1, [raised |-> NoError, types |-> {}])

-----------------------------------------------------------------------------
(* print_round_insights: the trump selection counts *)

\* trump_counts[trump] += 1, on a defaultdict(int)
Increment(counts, key) ==
    [x \in DOMAIN counts \cup {key} |->
        IF x = key THEN Get(counts, key, 0) + 1 ELSE counts[x]]

RECURSIVE count_rounds(_, _, _)
count_rounds(rounds, k, counts) ==
    IF k > Len(rounds) THEN counts
    ELSE count_rounds(rounds, k + 1,
             Increment(counts, normalize_trump(Get(rounds[k], "trump", None))))

RECURSIVE count_games(_, _, _)
count_games(gs, i, counts) ==
    IF i > Len(gs) THEN counts
    ELSE count_games(gs, i + 1, count_rounds(Get(gs[i], "rounds", <<>>), 1, counts))

round_insights(gs) ==
    count_games(gs, 1, [t \in {ALL_TRUMP_TYPES[k] : k \in 1..Len(ALL_TRUMP_TYPES)} |-> 0])

-----------------------------------------------------------------------------
(* The aggregator: mean, groupby, calculate_bid_stats, histogram.  A float  *)
(* quotient a / b is carried exactly, as [num |-> a, den |-> b]; the square *)
(* roots (stddev, rmse) and the median are only printed and are left out.   *)

Ratio(a, b) == [num |-> a, den |-> b]

\* mean(values): 0.0 on an empty list
mean(values) ==
    IF values = <<>> THEN Ratio(0, 1) ELSE Ratio(SeqSum(values), Len(values))

\* the group replaced by the item instead of extended by it
AppendTo_overwrite(groups, key, item) ==
    [x \in DOMAIN groups \cup {key} |-> IF x = key THEN <<item>> ELSE groups[x]]

\* groups[key].append(item) on a defaultdict(list)
AppendTo(groups, key, item) ==
    [x \in DOMAIN groups \cup {key} |->
        IF x = key THEN Append(Get(groups, key, <<>>), item) ELSE groups[x]]

\* the loop of groupby from item i on; key_func is a function on the items
RECURSIVE group_from(_, _, _, _)
group_from(items, key_func, i, groups) ==
    IF i > Len(items) THEN groups
    ELSE group_from(items, key_func, i + 1,
             AppendTo(groups, key_func[items[i]], items[i]))

groupby(items, key_func) == group_from(items, key_func, 1, EmptyDict)

\* analyze_jsonl: samples_by_ai_type[sample['ai_type']].append(sample)
samples_by_ai_type(samples) == groupby(samples, [s \in Range(samples) |-> s.ai_type])

\* (count / n * 100) if n > 0 else 0
Pct(count, n) == IF n > 0 THEN Ratio(count * 100, n) ELSE Ratio(0, 1)

calculate_bid_stats(group) ==
    LET n == Len(group)
        errors == [k \in 1..n |-> group[k].error]
        abs_errors == [k \in 1..n |-> group[k].abs_error]
        bids == [k \in 1..n |-> group[k].bid]
        actuals == [k \in 1..n |-> group[k].actual_tricks]
        exact_count == CountTrue([k \in 1..n |-> group[k].exact])
        over_count == CountTrue([k \in 1..n |-> group[k].error < 0])
        under_count == CountTrue([k \in 1..n |-> group[k].error > 0])
    IN [n |-> n,
        errors |-> errors,
        abs_errors |-> abs_errors,
        bids |-> bids,
        actuals |-> actuals,
        exact_count |-> exact_count,
        over_count |-> over_count,
        under_count |-> under_count,
        exact_pct |-> Pct(exact_count, n),
        over_pct |-> Pct(over_count, n),
        under_pct |-> Pct(under_count, n),
        mean_bid |-> mean(bids),
        mean_actual |-> mean(actuals),
        mean_err |-> mean(errors),
        mae |-> mean(abs_errors)]

\* A bucket label is the pair of its text before the number and the number:
\* f"<={m}" is <<"<=", m>>, f">=+{m}" is <<">=+", m>>, f"+{v}" is <<"+", v>>
\* and str(v) is <<"", v>>.
Label(prefix, number) == <<prefix, number>>

\* the label without the two end buckets
bucket_label_unclipped(val, min_bucket, max_bucket) ==
    LET val_int == val IN
    IF val_int >= 0 THEN Label("+", val_int)
    ELSE Label("", val_int)

\* the label of one value; the values are integers, so int(round(val)) = val
bucket_label(val, min_bucket, max_bucket) ==
    LET val_int == val IN
    IF val_int <= min_bucket THEN Label("<=", min_bucket)
    ELSE IF val_int >= max_bucket THEN Label(">=+", max_bucket)
    ELSE IF val_int >= 0 THEN Label("+", val_int)
    ELSE Label("", val_int)

RECURSIVE histogram_from(_, _, _, _)
histogram_from(values, k, buckets, counts) ==
    IF k > Len(values) THEN counts
    ELSE histogram_from(values, k + 1, buckets,
             Increment(counts, bucket_label(values[k], buckets[1], buckets[Len(buckets)])))

histogram(values, buckets) == histogram_from(values, 1, buckets, EmptyDict)

\* list(range(HISTOGRAM_MIN_BUCKET, HISTOGRAM_MAX_BUCKET + 1))
histogram_buckets ==
    [k \in 1..(HISTOGRAM_MAX_BUCKET - HISTOGRAM_MIN_BUCKET + 1) |->
        HISTOGRAM_MIN_BUCKET + k - 1]

\* bucket_labels of print_bid_accuracy_overall
bucket_labels ==
    <<Label("<=", HISTOGRAM_MIN_BUCKET)>>
    \o [k \in 1..(HISTOGRAM_MAX_BUCKET - HISTOGRAM_MIN_BUCKET - 1) |->
          LET i == HISTOGRAM_MIN_BUCKET + k IN
          IF i < 0 THEN Label("", i) ELSE Label("+", i)]
    \o <<Label(">=+", HISTOGRAM_MAX_BUCKET)>>

\* what print_bid_accuracy_overall prints for one agent type: the statistics
\* and, per rendered bucket, its label and count
overall_section(samples) ==
    LET stats == calculate_bid_stats(samples)
        hist == histogram(stats.errors, histogram_buckets)
    IN [stats |-> stats,
        hist |-> hist,
        rendered |-> [k \in 1..Len(bucket_labels) |->
                        [bucket |-> bucket_labels[k],
                         count |-> Get(hist, bucket_labels[k], 0)]]]

bid_accuracy_overall(by_ai_type) ==
    [ai_type \in {t \in DOMAIN by_ai_type : by_ai_type[t] # <<>>} |->
        overall_section(by_ai_type[ai_type])]

-----------------------------------------------------------------------------
(* print_auction_dynamics *)

\* the truth value of s.get(field) for a field that is True, False or None
Truthy(v) == v = Some(TRUE)

\* the split with the two fields tried in the other order
auction_split_chose_trump_first(samples) ==
    IF \E k \in 1..Len(samples) : samples[k].chose_trump # None
    THEN [field |-> "chose_trump",
          highest |-> SelectSeq(samples, LAMBDA s : Truthy(s.chose_trump)),
          not_highest |-> SelectSeq(samples, LAMBDA s : ~Truthy(s.chose_trump))]
    ELSE IF \E k \in 1..Len(samples) : samples[k].highest_bidder # None
    THEN [field |-> "highest_bidder",
          highest |-> SelectSeq(samples, LAMBDA s : Truthy(s.highest_bidder)),
          not_highest |-> SelectSeq(samples, LAMBDA s : ~Truthy(s.highest_bidder))]
    ELSE [field |-> "none", highest |-> <<>>, not_highest |-> <<>>]

\* the two groups of one agent type and the field they were split on;
\* field "none" is the `continue` of a group with neither field known
auction_split(samples) ==
    IF \E k \in 1..Len(samples) : samples[k].highest_bidder # None
    THEN [field |-> "highest_bidder",
          highest |-> SelectSeq(samples, LAMBDA s : Truthy(s.highest_bidder)),
          not_highest |-> SelectSeq(samples, LAMBDA s : ~Truthy(s.highest_bidder))]
    ELSE IF \E k \in 1..Len(samples) : samples[k].chose_trump # None
    THEN [field |-> "chose_trump",
          highest |-> SelectSeq(samples, LAMBDA s : Truthy(s.chose_trump)),
          not_highest |-> SelectSeq(samples, LAMBDA s : ~Truthy(s.chose_trump))]
    ELSE [field |-> "none", highest |-> <<>>, not_highest |-> <<>>]

\* the lines printed for one agent type: one per non-empty group
auction_section(samples) ==
    LET split == auction_split(samples)
        groups == <<[label |-> "Highest bidder", group |-> split.highest],
                    [label |-> "Not highest bidder", group |-> split.not_highest]>>
        shown == SelectSeq(groups, LAMBDA g : g.group # <<>>)
    IN [field |-> split.field,
        highest |-> split.highest,
        not_highest |-> split.not_highest,
        printed |-> [k \in 1..Len(shown) |->
                        [label |-> shown[k].label,
                         stats |-> calculate_bid_stats(shown[k].group)]]]

auction_dynamics(by_ai_type) ==
    [ai_type \in {t \in DOMAIN by_ai_type : by_ai_type[t] # <<>>} |->
        auction_section(by_ai_type[ai_type])]

-----------------------------------------------------------------------------
(* print_calibration_table, print_calibration_tables *)

\* sorted(keys) for a set of integers
RECURSIVE sorted_keys(_)
sorted_keys(keys) ==
    IF keys = {} THEN <<>>
    ELSE LET least == CHOOSE x \in keys : \A y \in keys : x <= y IN
         <<least>> \o sorted_keys(keys \ {least})

\* the rows of one calibration table, in ascending bid order
calibration_table(samples) ==
    LET by_bid == groupby(samples, [s \in Range(samples) |-> s.bid])
        bid_values == sorted_keys(DOMAIN by_bid)
    IN [k \in 1..Len(bid_values) |->
          LET group == by_bid[bid_values[k]] IN
          [bid |-> bid_values[k],
           n |-> Len(group),
           avg_actual |-> mean([j \in 1..Len(group) |-> group[j].actual_tricks]),
           mean_err |-> mean([j \in 1..Len(group) |-> group[j].error])]]

\* [s for s in samples if min_size <= s['hand_size'] <= max_size]
bucket_samples(samples, bucket) ==
    SelectSeq(samples, LAMBDA s : bucket.min_size <= s.hand_size
                                  /\ s.hand_size <= bucket.max_size)

\* the tables of one agent type: all hand sizes, then each non-empty bucket
calibration_section(samples) ==
    LET shown == SelectSeq(HAND_SIZE_BUCKETS,
                           LAMBDA b : bucket_samples(samples, b) # <<>>)
    IN [all_sizes |-> calibration_table(samples),
        buckets |-> [k \in 1..Len(shown) |->
                        [label |-> shown[k].label,
                         rows |-> calibration_table(bucket_samples(samples, shown[k]))]]]

calibration_tables(by_ai_type) ==
    [ai_type \in {t \in DOMAIN by_ai_type : by_ai_type[t] # <<>>} |->
        calibration_section(by_ai_type[ai_type])]

-----------------------------------------------------------------------------
(* print_score_metrics *)

\* the rate as a fraction, not a percentage
win_rate_fraction(wins, total) == IF total > 0 THEN Ratio(wins, total) ELSE Ratio(0, 1)

\* (wins / total * 100) if total > 0 else 0
win_rate(wins, total) == IF total > 0 THEN Ratio(wins * 100, total) ELSE Ratio(0, 1)

\* what is printed for one agent type
score_section(ai_type, by_ai_type, all_game_samples) ==
    LET played == SelectSeq(all_game_samples, LAMBDA g : g.ai_type = ai_type)
        wins == CountTrue([k \in 1..Len(played) |-> played[k].won])
        total == Len(played)
        scores_list == [k \in 1..Len(played) |-> played[k].final_score]
        bid_samples_ai == Get(by_ai_type, ai_type, <<>>)
        points_per_hand ==
            [k \in 1..Len(bid_samples_ai) |->
                bid_samples_ai[k].actual_tricks
                + (IF bid_samples_ai[k].exact THEN BONUS_POINTS ELSE 0)]
        exact_count == CountTrue([k \in 1..Len(bid_samples_ai) |-> bid_samples_ai[k].exact])
    IN [wins |-> wins,
        total |-> total,
        win_rate |-> win_rate(wins, total),
        avg_score |-> mean(scores_list),
        avg_points_per_hand |-> IF bid_samples_ai # <<>> THEN mean(points_per_hand)
                                ELSE Ratio(0, 1),
        bonus_hit_rate |-> IF bid_samples_ai # <<>>
                           THEN Pct(exact_count, Len(bid_samples_ai))
                           ELSE Ratio(0, 1)]

score_metrics_of(by_ai_type, all_game_samples) ==
    [ai_type \in {all_game_samples[k].ai_type : k \in 1..Len(all_game_samples)} |->
        score_section(ai_type, by_ai_type, all_game_samples)]

-----------------------------------------------------------------------------
(* export_to_csv *)

\* x < y for the sort key (game_id, round_index, seat)
KeyLess(x, y) ==
    \/ x.game_id < y.game_id
    \/ x.game_id = y.game_id /\ x.round_index < y.round_index
    \/ x.game_id = y.game_id /\ x.round_index = y.round_index /\ x.seat < y.seat

\* s placed after every element whose key is not greater (sorted() is stable)
RECURSIVE insert_sorted(_, _)
insert_sorted(sorted_list, s) ==
    IF sorted_list = <<>> THEN <<s>>
    ELSE IF KeyLess(s, Head(sorted_list)) THEN <<s>> \o sorted_list
    ELSE <<Head(sorted_list)>> \o insert_sorted(Tail(sorted_list), s)

\* the samples left in the order of extraction
sorted_samples_unsorted(samples, k, acc) == samples

RECURSIVE sorted_samples(_, _, _)
sorted_samples(samples, k, acc) ==
    IF k > Len(samples) THEN acc
    ELSE sorted_samples(samples, k + 1, insert_sorted(acc, samples[k]))

\* '1' if flag else '0', for a flag that is True, False or None
Flag(v) == IF v = Some(TRUE) THEN "1" ELSE "0"

\* the row written for sample s; integers are written in decimal and kept as integers
csv_row(s) ==
    [ai_name |-> s.ai_type,
     game_id |-> s.game_id,
     round_index |-> s.round_index,
     hand_size |-> s.hand_size,
     seat |-> s.seat,
     bid |-> s.bid,
     actual_tricks |-> s.actual_tricks,
     error |-> s.error,
     abs_error |-> s.abs_error,
     trump |-> IF s.trump = None \/ s.trump = Some("") THEN "" ELSE s.trump[1],
     highest_bidder |-> Flag(s.highest_bidder),
     chose_trump |-> Flag(s.chose_trump),
     score_delta |-> s.round_score,
     bonus_awarded |-> Flag(Some(s.exact))]

export_to_csv(samples) ==
    LET ordered == sorted_samples(samples, 1, <<>>) IN
    [k \in 1..Len(ordered) |-> csv_row(ordered[k])]

-----------------------------------------------------------------------------
(* The input files.  A record as the simulator writes it carries every     *)
(* field, and the exact flag of a bid_accuracy entry agrees with its bid    *)
(* and tricks; partial and legacy records are such records with keys        *)
(* missing or with a null where a block is expected.                        *)

Seats == 0..(NUM_PLAYERS - 1)
OptSeats == {None} \cup {Some(s) : s \in Seats}
OptBids == {None} \cup {Some(b) : b \in 0..MaxBid}
TrumpValues == {None, Some("NoTrumps"), Some("NO_TRUMPS"), Some("No Trumps"),
                Some("Hearts"), Some("Spades")}

DropKeys(d, ks) == [x \in DOMAIN d \ ks |-> d[x]]

Entry(seat, bid, tricks) ==
    [seat |-> seat, bid |-> bid, tricks |-> tricks, exact |-> (bid = tricks)]

Round(hand_size, dealer, trump, trump_selector, bids, tricks_won, scores) ==
    [hand_size |-> hand_size, dealer |-> dealer, trump |-> trump,
     trump_selector |-> trump_selector, bids |-> bids,
     tricks_won |-> tricks_won, scores |-> scores,
     bid_accuracy |-> [k \in 1..Len(tricks_won) |->
                          Entry(k - 1, IF bids[k] = None THEN 0 ELSE bids[k][1],
                                tricks_won[k])]]

Round1 == Round(2, Some(0), Some("Hearts"), Some(1),
                <<Some(1), Some(2), Some(0), Some(0)>>, <<1, 1, 0, 0>>,
                <<11, 1, 10, 10>>)
Round2 == Round(3, Some(1), None, None,
                <<Some(0), None, Some(2), Some(1)>>, <<0, 1, 1, 1>>,
                <<10, 1, 1, 11>>)

Game(game_id, ai_types, winner, final_scores, rounds) ==
    [game_id |-> game_id,
     config |-> Some([ai_types |-> ai_types, seed |-> 7]),
     result |-> Some([winner |-> winner, final_scores |-> final_scores]),
     rounds |-> rounds]

Game1 == Game(1, <<"Heuristic", "Random", "Heuristic", "Random">>, 0,
              <<21, 2, 10, 10>>, <<Round1>>)
Game2 == Game(2, <<"Heuristic", "Heuristic", "Heuristic", "Heuristic">>, 3,
              <<20, 2, 11, 21>>, <<Round2, Round1>>)

\* Game1 with one defect of structure
Defects == {"no_game_id", "no_config", "null_config", "no_ai_types", "no_result",
            "null_result", "no_winner", "no_final_scores", "short_final_scores",
            "no_rounds", "empty_rounds"}

Defective(g, d) ==
    CASE d = "no_game_id" -> Without(g, "game_id")
      [] d = "no_config" -> Without(g, "config")
      [] d = "null_config" -> With(g, "config", None)
      [] d = "no_ai_types" -> With(g, "config", Some(Without(g.config[1], "ai_types")))
      [] d = "no_result" -> Without(g, "result")
      [] d = "null_result" -> With(g, "result", None)
      [] d = "no_winner" -> With(g, "result", Some(Without(g.result[1], "winner")))
      [] d = "no_final_scores" ->
            With(g, "result", Some(Without(g.result[1], "final_scores")))
      [] d = "short_final_scores" ->
            With(g, "result", Some(With(g.result[1], "final_scores", <<21, 2>>)))
      [] d = "no_rounds" -> Without(g, "rounds")
      [] d = "empty_rounds" -> With(g, "rounds", <<>>)

\* the lines of the files of the loader family
LoaderLines ==
    {BlankLine, BadLine, JsonLine(Game1), JsonLine(Game2)}
    \cup {JsonLine(Defective(Game1, d)) : d \in Defects}

RECURSIVE SeqsUpTo(_, _)
SeqsUpTo(S, n) ==
    IF n = 0 THEN {<<>>}
    ELSE LET shorter == SeqsUpTo(S, n - 1) IN
         shorter \cup {Append(q, x) : q \in {r \in shorter : Len(r) = n - 1}, x \in S}

LoaderFiles == SeqsUpTo(LoaderLines, MaxLines)

\* rounds that vary the auction: every trump_selector and every list of bids
AuctionRounds ==
    {Round(2, Some(0), Some("Spades"), sel, bids, <<1, 0, 1, 0>>, <<1, 10, 1, 10>>) :
        sel \in OptSeats, bids \in [1..NUM_PLAYERS -> OptBids]}

\* the round of the scenario bids = [3, None, 5, 2], trump_selector = None
ScenarioRound ==
    Round(5, Some(0), Some("Spades"), None, <<Some(3), None, Some(5), Some(2)>>,
          <<3, 0, 1, 1>>, <<13, 0, 1, 1>>)

\* rounds that vary the trump and the dealer
TrumpRounds ==
    {Round(2, dealer, trump, None, <<Some(1), Some(0), Some(1), Some(0)>>,
           <<1, 0, 1, 0>>, <<11, 10, 11, 10>>) :
        dealer \in OptSeats, trump \in TrumpValues}

\* rounds with one bid_accuracy entry, with any of its keys missing
EntryRounds ==
    {With(Round2, "bid_accuracy",
          <<DropKeys(Entry(seat, bid, tricks), ks)>>) :
        seat \in Seats, bid \in 0..MaxBid, tricks \in 0..MaxTricks,
        ks \in SUBSET {"seat", "bid", "tricks", "exact"}}

\* rounds with any of the keys of the round missing, or a short scores list
PartialRounds ==
    {DropKeys(Round1, ks) : ks \in SUBSET DOMAIN Round1}
    \cup {With(Round1, "scores", <<11, 1>>), With(Round1, "scores", <<>>)}

RoundFiles ==
    {<<JsonLine(With(Game1, "rounds", <<r>>))>> :
        r \in AuctionRounds \cup {ScenarioRound} \cup TrumpRounds \cup EntryRounds
              \cup PartialRounds}

\* bid and tricks values whose differences reach and pass the histogram range
OutlierValues == {0, 5, 6, 7, 13}

\* rounds with one entry whose error may lie outside the histogram range
OutlierRounds ==
    {With(With(Round2, "hand_size", 13), "bid_accuracy", <<Entry(0, bid, tricks)>>) :
        bid \in OutlierValues, tricks \in OutlierValues}

\* the round of the errors [7, -8, 0, -1], its entries not in seat order
HistogramRound ==
    With(With(Round2, "hand_size", 13), "bid_accuracy",
         <<Entry(3, 0, 7), Entry(0, 8, 0), Entry(2, 0, 0), Entry(1, 1, 0)>>)

\* games of one agent type at the four seats: a round with full auction data
\* followed by a partial round or by the round of the histogram, and the
\* rounds of the histogram alone
MixedFiles ==
    {<<JsonLine(With(Game2, "rounds", <<Round1, r>>))>> :
        r \in PartialRounds \cup {HistogramRound}}
    \cup {<<JsonLine(With(Game2, "rounds", <<r>>))>> :
              r \in OutlierRounds \cup {HistogramRound}}

\* the games of the win-rate scenario: 10 games in which one agent type holds
\* one seat, a different one from game to game, and wins 3 of them
ScenarioGames == 10
ScenarioWins == 3

ScenarioGame(i) ==
    Game(i, [k \in 1..NUM_PLAYERS |->
                IF k - 1 = i % NUM_PLAYERS THEN "Heuristic" ELSE "Random"],
         IF i <= ScenarioWins THEN i % NUM_PLAYERS ELSE (i + 1) % NUM_PLAYERS,
         <<21, 2, 10, 10>>, <<Round1>>)

ScenarioFile == [i \in 1..ScenarioGames |-> JsonLine(ScenarioGame(i))]

Files == LoaderFiles \cup RoundFiles \cup MixedFiles \cup {ScenarioFile}

-----------------------------------------------------------------------------
(* analyze_jsonl *)

Init ==
    /\ \/ path_exists = FALSE /\ file = <<>>
       \/ path_exists = TRUE /\ file \in Files
    /\ pc = "start"
    /\ games = <<>>
    /\ warnings = <<>>
    /\ bid_samples = <<>>
    /\ game_samples = <<>>
    /\ trump_counts = EmptyDict
    /\ overall = EmptyDict
    /\ auction = EmptyDict
    /\ calibration = EmptyDict
    /\ score_metrics = EmptyDict
    /\ csv_rows = <<>>
    /\ error = NoError

\* games = load_games(filepath); FileNotFoundError and ValueError end the run
\* with sys.exit(1)
LoadGames ==
    /\ pc = "start"
    /\ LET r == load_games(path_exists, file) IN
       /\ games' = r.games
       /\ warnings' = warnings \o r.warnings
       /\ error' = r.raised
       /\ pc' = IF r.raised = NoError THEN "loaded" ELSE "exit"
    /\ UNCHANGED <<path_exists, file, bid_samples, game_samples, trump_counts,
                   overall, auction, calibration, score_metrics, csv_rows>>

\* the detection loop, then collect_samples(games); an exception of either
\* is not caught
CollectSamples ==
    /\ pc = "loaded"
    /\ LET d == detect_ai_types(games)
           r == collect_samples(games)
       IN IF d.raised # NoError
          THEN /\ error' = d.raised
               /\ pc' = "crashed"
               /\ UNCHANGED <<warnings, bid_samples, game_samples>>
          ELSE /\ warnings' = warnings \o r.warnings
               /\ error' = r.raised
               /\ pc' = IF r.raised = NoError THEN "collected" ELSE "crashed"
               /\ bid_samples' = IF r.raised = NoError THEN r.bid_samples ELSE <<>>
               /\ game_samples' = IF r.raised = NoError THEN r.game_samples ELSE <<>>
    /\ UNCHANGED <<path_exists, file, games, trump_counts, overall, auction,
                   calibration, score_metrics, csv_rows>>

\* print_round_insights(games)
PrintRoundInsights ==
    /\ pc = "collected"
    /\ trump_counts' = round_insights(games)
    /\ pc' = "insights"
    /\ UNCHANGED <<path_exists, file, games, warnings, bid_samples, game_samples,
                   overall, auction, calibration, score_metrics, csv_rows, error>>

\* print_bid_accuracy_overall(bid_samples, samples_by_ai_type)
PrintBidAccuracyOverall ==
    /\ pc = "insights"
    /\ overall' = bid_accuracy_overall(samples_by_ai_type(bid_samples))
    /\ pc' = "overall"
    /\ UNCHANGED <<path_exists, file, games, warnings, bid_samples, game_samples,
                   trump_counts, auction, calibration, score_metrics, csv_rows, error>>

\* print_auction_dynamics(samples_by_ai_type)
PrintAuctionDynamics ==
    /\ pc = "overall"
    /\ auction' = auction_dynamics(samples_by_ai_type(bid_samples))
    /\ pc' = "auction"
    /\ UNCHANGED <<path_exists, file, games, warnings, bid_samples, game_samples,
                   trump_counts, overall, calibration, score_metrics, csv_rows, error>>

\* print_calibration_tables(samples_by_ai_type)
PrintCalibrationTables ==
    /\ pc = "auction"
    /\ calibration' = calibration_tables(samples_by_ai_type(bid_samples))
    /\ pc' = "calibration"
    /\ UNCHANGED <<path_exists, file, games, warnings, bid_samples, game_samples,
                   trump_counts, overall, auction, score_metrics, csv_rows, error>>

\* print_score_metrics(samples_by_ai_type, game_samples)
PrintScoreMetrics ==
    /\ pc = "calibration"
    /\ score_metrics' = score_metrics_of(samples_by_ai_type(bid_samples), game_samples)
    /\ pc' = "reported"
    /\ UNCHANGED <<path_exists, file, games, warnings, bid_samples, game_samples,
                   trump_counts, overall, auction, calibration, csv_rows, error>>

\* SIM_EXPORT=1: export_to_csv(bid_samples, export_path); an IOError is
\* reported and the run goes on
ExportToCsv ==
    /\ pc = "reported"
    /\ \E writable \in BOOLEAN :
          IF writable
          THEN /\ csv_rows' = export_to_csv(bid_samples)
               /\ UNCHANGED warnings
          ELSE /\ csv_rows' = <<>>
               /\ warnings' = Append(warnings, [kind |-> "export"])
    /\ pc' = "exported"
    /\ UNCHANGED <<path_exists, file, games, bid_samples, game_samples,
                   trump_counts, overall, auction, calibration, score_metrics, error>>

\* SIM_EXPORT unset: no export
SkipExport ==
    /\ pc = "reported"
    /\ pc' = "done"
    /\ UNCHANGED <<path_exists, file, games, warnings, bid_samples, game_samples,
                   trump_counts, overall, auction, calibration, score_metrics,
                   csv_rows, error>>

Next ==
    \/ LoadGames
    \/ CollectSamples
    \/ PrintRoundInsights
    \/ PrintBidAccuracyOverall
    \/ PrintAuctionDynamics
    \/ PrintCalibrationTables
    \/ PrintScoreMetrics
    \/ ExportToCsv
    \/ SkipExport

Spec == Init /\ [][Next]_vars

-----------------------------------------------------------------------------
(* Properties *)

\* collect_samples has returned
Collected ==
    pc \in {"collected", "insights", "overall", "auction", "calibration", "reported",
            "exported", "done"}

\* the game passes validate_game_structure
Passes(game) ==
    validate_game_structure(game).raised = NoError /\ validate_game_structure(game).ok

\* the round record a bid sample was extracted from
RoundOf(s) ==
    LET i == CHOOSE i \in 1..Len(games) :
                 /\ Passes(games[i])
                 /\ games[i].game_id = s.game_id
                 /\ s.round_index < Len(games[i].rounds)
    IN games[i].rounds[s.round_index + 1]

SetMin(S) == CHOOSE x \in S : \A y \in S : x <= y

\* C1: for every bid sample, exact is true if and only if error = 0.
C1_Claim ==
    \A k \in 1..Len(bid_samples) :
        bid_samples[k].exact <=> (bid_samples[k].error = 0)

\* C2: for every non-empty group given to calculate_bid_stats, the exact, over
\* and under counts sum to n and the three percentages sum to 100.
C2_Claim ==
    \A t \in DOMAIN overall :
        LET st == overall[t].stats IN
        st.n > 0 =>
            /\ st.exact_count + st.over_count + st.under_count = st.n
            /\ st.exact_pct.den = st.n /\ st.over_pct.den = st.n /\ st.under_pct.den = st.n
            /\ st.exact_pct.num + st.over_pct.num + st.under_pct.num = 100 * st.n

\* C3: for every bid sample, error = actual_tricks - bid and abs_error = |error|,
\* so error > 0 exactly when the seat took more tricks than it bid and error < 0
\* exactly when it took fewer.
C3_Thm ==
    \A k \in 1..Len(bid_samples) :
        LET s == bid_samples[k] IN
        /\ s.error = s.actual_tricks - s.bid
        /\ s.abs_error >= 0
        /\ s.abs_error = s.error \/ s.abs_error = -s.error
        /\ (s.error > 0) <=> (s.actual_tricks > s.bid)
        /\ (s.error < 0) <=> (s.actual_tricks < s.bid)

C3_Witness ==
    /\ \E k \in 1..Len(bid_samples) :
          bid_samples[k].error > 0 /\ bid_samples[k].abs_error = bid_samples[k].error
    /\ \E k \in 1..Len(bid_samples) :
          bid_samples[k].error < 0 /\ bid_samples[k].abs_error = -bid_samples[k].error

\* the highest bidder of a round as the rule states it: the trump_selector when
\* present, else the lowest seat among those holding the greatest non-absent bid,
\* else unknown
RuleHighestBidder(round_data) ==
    LET sel == Get(round_data, "trump_selector", None)
        bids == Get(round_data, "bids", <<>>)
        present == {k \in 1..Len(bids) : bids[k] # None}
        top == {k \in present : \A j \in present : bids[j][1] <= bids[k][1]}
    IN IF sel # None THEN sel
       ELSE IF present = {} THEN None
       ELSE Some(SetMin(top) - 1)

\* C4: the highest bidder of a round is its trump_selector when present, else the
\* lowest-numbered seat holding the greatest non-absent bid; a sample is flagged
\* highest bidder exactly when its seat is that seat.
C4_Thm ==
    Collected =>
        \A k \in 1..Len(bid_samples) :
            LET s == bid_samples[k]
                h == RuleHighestBidder(RoundOf(s))
            IN h # None => s.highest_bidder = Some(s.seat = h[1])

C4_Witness ==
    /\ Collected
    /\ \E k \in 1..Len(bid_samples) :
          LET s == bid_samples[k] IN
          /\ Get(RoundOf(s), "bids", <<>>) = <<Some(3), None, Some(5), Some(2)>>
          /\ Get(RoundOf(s), "trump_selector", None) = None
          /\ s.seat = 2
          /\ s.highest_bidder = Some(TRUE)
    /\ \A k \in 1..Len(bid_samples) :
          bid_samples[k].seat # 2 => bid_samples[k].highest_bidder = Some(FALSE)

\* the round has neither a trump_selector nor any non-absent bid
NoAuctionData(round_data) ==
    /\ Get(round_data, "trump_selector", None) = None
    /\ \A k \in 1..Len(Get(round_data, "bids", <<>>)) : round_data.bids[k] = None

\* C5: highest_bidder is unknown exactly when the round has neither a
\* trump_selector nor a non-absent bid, chose_trump is then unknown too, and when
\* both are known they are equal.
C5_Thm ==
    Collected =>
        \A k \in 1..Len(bid_samples) :
            LET s == bid_samples[k] IN
            /\ (s.highest_bidder = None) <=> NoAuctionData(RoundOf(s))
            /\ NoAuctionData(RoundOf(s)) => s.chose_trump = None
            /\ (s.highest_bidder # None /\ s.chose_trump # None)
                  => s.highest_bidder = s.chose_trump

C5_Witness ==
    /\ Collected
    /\ \E k \in 1..Len(bid_samples) :
          /\ "bids" \in DOMAIN RoundOf(bid_samples[k])
          /\ Len(RoundOf(bid_samples[k]).bids) = NUM_PLAYERS
          /\ NoAuctionData(RoundOf(bid_samples[k]))
          /\ bid_samples[k].highest_bidder = None
          /\ bid_samples[k].chose_trump = None

NoTrumpSpellings == {None, Some("NoTrumps"), Some("NO_TRUMPS")}

\* the rounds of the loaded games: <<i, k>> is round k of game i
LoadedRounds ==
    UNION {{<<i, k>> : k \in 1..Len(Get(games[i], "rounds", <<>>))} : i \in 1..Len(games)}

TrumpOf(ref) == Get(games[ref[1]].rounds[ref[2]], "trump", None)

InsightsPrinted ==
    pc \in {"insights", "overall", "auction", "calibration", "reported", "exported",
            "done"}

\* C6: normalize_trump is idempotent, maps None, 'NoTrumps' and 'NO_TRUMPS' to
\* 'No Trumps' and returns every other value unchanged; so every label counted
\* by the round insights is its own normal form and the 'No Trumps' count is the
\* number of rounds whose trump is one of the spellings or the label itself.
C6_Thm ==
    InsightsPrinted =>
        /\ \A label \in DOMAIN trump_counts : normalize_trump(Some(label)) = label
        /\ \A ref \in LoadedRounds :
              LET t == TrumpOf(ref)
                  n == normalize_trump(t)
              IN /\ normalize_trump(Some(n)) = n
                 /\ t \in NoTrumpSpellings => n = "No Trumps"
                 /\ t \notin NoTrumpSpellings => Some(n) = t
        /\ trump_counts["No Trumps"] =
              Cardinality({ref \in LoadedRounds :
                              TrumpOf(ref) \in NoTrumpSpellings \cup {Some("No Trumps")}})

C6_Witness ==
    /\ InsightsPrinted
    /\ \E ref \in LoadedRounds : TrumpOf(ref) = Some("NO_TRUMPS")
    /\ trump_counts["No Trumps"] = 1

\* C7: the trump of every bid sample is the normalized trump of its round, and
\* the trump column of the export carries that normalized value.
C7_Claim ==
    /\ Collected =>
          \A k \in 1..Len(bid_samples) :
              bid_samples[k].trump =
                  Some(normalize_trump(Get(RoundOf(bid_samples[k]), "trump", None)))
    /\ \A k \in 1..Len(csv_rows) :
          csv_rows[k].trump \notin {"", "NoTrumps", "NO_TRUMPS"}

\* the parsed values of the parseable lines of f, in file order
ParsedValues(f) ==
    LET parseable == SelectSeq(f, LAMBDA line : line.kind = "json") IN
    [k \in 1..Len(parseable) |-> parseable[k].value]

\* the warnings of kind kd, in order
WarningsOf(kd) == SelectSeq(warnings, LAMBDA w : w.kind = kd)

ValidGames == SelectSeq(games, Passes)

\* the step after load_games has been taken
CollectDone == Collected \/ pc = "crashed"

\* C9: every record that fails validation is skipped with exactly one warning
\* and never halts the run, and the samples of the batch are those of the batch
\* without its invalid records.
C9_Claim ==
    CollectDone =>
        /\ pc = "crashed" => collect_samples(ValidGames).raised # NoError
        /\ Collected =>
              /\ bid_samples = collect_samples(ValidGames).bid_samples
              /\ game_samples = collect_samples(ValidGames).game_samples
              /\ Len(WarningsOf("skip")) = Len(games) - Len(ValidGames)

\* C10: extraction of a record that passed validation never raises: when every
\* record of the batch passes validation, collect_samples returns.
C10_Claim ==
    (CollectDone /\ \A i \in 1..Len(games) : Passes(games[i])) => error = NoError

-----------------------------------------------------------------------------
\* the structure a record needs to pass: a game identifier, a config block
\* with an agent-type list, a result block with a winner, and a rounds list
HasRequiredStructure(game) ==
    /\ {"game_id", "config", "result", "rounds"} \subseteq DOMAIN game
    /\ game.config # None
    /\ "ai_types" \in DOMAIN game.config[1]
    /\ game.result # None
    /\ "winner" \in DOMAIN game.result[1]

\* C11: validate_game_structure answers for every loaded record, and passes
\* it exactly when the record has a game identifier, a config block with an
\* agent-type list, a result block with a winner field and a rounds list; a
\* record lacking any one of them fails
C11_Claim ==
    pc # "start" =>
        \A i \in 1..Len(games) :
            LET v == validate_game_structure(games[i]) IN
            /\ v.raised = NoError
            /\ v.ok <=> HasRequiredStructure(games[i])

-----------------------------------------------------------------------------
\* the sum of the sizes of the groups of the keys ks
RECURSIVE SumSizes(_, _)
SumSizes(groups, ks) ==
    IF ks = {} THEN 0
    ELSE LET k == CHOOSE x \in ks : TRUE IN
         Len(groups[k]) + SumSizes(groups, ks \ {k})

\* groupby(items, key_func) is a partition of items: the keys are the keys of
\* the items, the group of a key is the items of that key, each as often and
\* in the order it occurs in items, and the sizes sum to the size of items
Partitions(items, key_func) ==
    LET groups == groupby(items, key_func) IN
    /\ DOMAIN groups = {key_func[x] : x \in Range(items)}
    /\ \A k \in DOMAIN groups :
          groups[k] = SelectSeq(items, LAMBDA x : key_func[x] = k)
    /\ \A i \in 1..Len(items) :
          \A k \in DOMAIN groups :
              (\E j \in 1..Len(groups[k]) : groups[k][j] = items[i])
                  <=> k = key_func[items[i]]
    /\ SumSizes(groups, DOMAIN groups) = Len(items)

CalibrationPrinted == pc \in {"calibration", "reported", "exported", "done"}

RowCount(rows) == SeqSum([k \in 1..Len(rows) |-> rows[k].n])

BucketOf(label) == CHOOSE b \in Range(HAND_SIZE_BUCKETS) : b.label = label

\* C12: groupby partitions its input (every sample is in exactly the group of
\* its own key, and the sizes of the groups sum to the size of the input), and
\* the row counts of every calibration table sum to the number of samples of
\* the group the table was built from
C12_Thm ==
    Collected =>
        /\ Partitions(bid_samples, [s \in Range(bid_samples) |-> s.ai_type])
        /\ Partitions(bid_samples, [s \in Range(bid_samples) |-> s.bid])
        /\ Partitions(bid_samples, [s \in Range(bid_samples) |-> s.hand_size])
        /\ Partitions(game_samples, [g \in Range(game_samples) |-> g.seat])
        /\ CalibrationPrinted =>
              LET by_ai_type == samples_by_ai_type(bid_samples) IN
              /\ DOMAIN calibration = DOMAIN by_ai_type
              /\ \A t \in DOMAIN calibration :
                    /\ RowCount(calibration[t].all_sizes) = Len(by_ai_type[t])
                    /\ \A k \in 1..Len(calibration[t].buckets) :
                          RowCount(calibration[t].buckets[k].rows)
                              = Len(bucket_samples(by_ai_type[t],
                                        BucketOf(calibration[t].buckets[k].label)))

\* a calibration table of several rows, one of them of several samples, beside
\* tables of two hand-size buckets
C12_Witness ==
    /\ CalibrationPrinted
    /\ \E t \in DOMAIN calibration :
          /\ Len(calibration[t].all_sizes) >= 2
          /\ \E k \in 1..Len(calibration[t].all_sizes) :
                calibration[t].all_sizes[k].n >= 2
          /\ Len(calibration[t].buckets) >= 2

-----------------------------------------------------------------------------
OverallPrinted ==
    pc \in {"overall", "auction", "calibration", "reported", "exported", "done"}

\* the sum of the counts of the labels ls
RECURSIVE SumCounts(_, _)
SumCounts(counts, ls) ==
    IF ls = {} THEN 0
    ELSE LET l == CHOOSE x \in ls : TRUE IN
         counts[l] + SumCounts(counts, ls \ {l})

\* the bucket of an integer strictly between the two end buckets
OwnBucket(v) == IF v >= 0 THEN Label("+", v) ELSE Label("", v)

\* C13: the bucket counts of the histogram of an agent type sum to the number
\* of its errors; the errors at or below the minimum bucket are all counted in
\* the lowest bucket, those at or above the maximum bucket in the highest, and
\* every other error in the bucket of its own integer value; every bucket the
\* histogram produces is one the overall report renders, so the rendered
\* counts sum to the number of errors
C13_Thm ==
    OverallPrinted =>
        LET by_ai_type == samples_by_ai_type(bid_samples) IN
        /\ DOMAIN overall = DOMAIN by_ai_type
        /\ \A t \in DOMAIN overall :
              LET errors == [k \in 1..Len(by_ai_type[t]) |-> by_ai_type[t][k].error]
                  n == Len(errors)
                  hist == overall[t].hist
                  rendered == overall[t].rendered
              IN /\ overall[t].stats.n = n
                 /\ SumCounts(hist, DOMAIN hist) = n
                 /\ Get(hist, Label("<=", HISTOGRAM_MIN_BUCKET), 0)
                       = CountTrue([k \in 1..n |-> errors[k] <= HISTOGRAM_MIN_BUCKET])
                 /\ Get(hist, Label(">=+", HISTOGRAM_MAX_BUCKET), 0)
                       = CountTrue([k \in 1..n |-> errors[k] >= HISTOGRAM_MAX_BUCKET])
                 /\ \A v \in (HISTOGRAM_MIN_BUCKET + 1)..(HISTOGRAM_MAX_BUCKET - 1) :
                       Get(hist, OwnBucket(v), 0)
                           = CountTrue([k \in 1..n |-> errors[k] = v])
                 /\ DOMAIN hist \subseteq {rendered[k].bucket : k \in 1..Len(rendered)}
                 /\ \A j, k \in 1..Len(rendered) :
                       rendered[j].bucket = rendered[k].bucket => j = k
                 /\ SeqSum([k \in 1..Len(rendered) |-> rendered[k].count]) = n

\* an agent type whose errors lie below, inside and above the histogram range
C13_Witness ==
    /\ OverallPrinted
    /\ \E t \in DOMAIN overall :
          LET errors == Range(overall[t].stats.errors) IN
          /\ \E e \in errors : e < HISTOGRAM_MIN_BUCKET
          /\ \E e \in errors : e > HISTOGRAM_MAX_BUCKET
          /\ \E e \in errors : HISTOGRAM_MIN_BUCKET < e /\ e < HISTOGRAM_MAX_BUCKET

-----------------------------------------------------------------------------
\* game id, seat, agent type and won of a game sample
Outcome(g) == [game_id |-> g.game_id, seat |-> g.seat, ai_type |-> g.ai_type,
               won |-> g.won]

\* one outcome per seat of the agent-type list of a game, won exactly at the
\* seat of the recorded winner
SeatOutcomes(game) ==
    LET ai_types == game.config[1].ai_types IN
    [k \in 1..Len(ai_types) |->
        [game_id |-> game.game_id, seat |-> k - 1, ai_type |-> ai_types[k],
         won |-> (k - 1 = game.result[1].winner)]]

\* the seat outcomes of the games gs from game i on, in order
RECURSIVE OutcomesFrom(_, _)
OutcomesFrom(gs, i) ==
    IF i > Len(gs) THEN <<>> ELSE SeatOutcomes(gs[i]) \o OutcomesFrom(gs, i + 1)

\* the game samples are one per seat of each valid game
OnePerSeat ==
    /\ [k \in 1..Len(game_samples) |-> Outcome(game_samples[k])]
           = OutcomesFrom(ValidGames, 1)
    /\ \A i \in 1..Len(ValidGames) :
          Cardinality({k \in 1..Len(SeatOutcomes(ValidGames[i])) :
                          SeatOutcomes(ValidGames[i])[k].won}) <= 1

\* C14: once collect_samples has run, the game samples are exactly one per seat
\* of the agent-type list of every valid game of the batch, won is true exactly
\* at the seat of the game's recorded winner, and so at most one game sample of
\* a game has won = true
C14_Claim == CollectDone => OnePerSeat

\* the part of C14 that holds: it holds of every run in which collect_samples
\* returns
C14_Returned == Collected => OnePerSeat

\* game samples of two valid games, each with one winner
C14_Returned_Witness ==
    /\ Collected
    /\ Len(ValidGames) >= 2
    /\ Cardinality({k \in 1..Len(game_samples) : game_samples[k].won}) >= 2

-----------------------------------------------------------------------------
ScorePrinted == pc \in {"reported", "exported", "done"}

\* of the games gs, those the agent type t played in
GamesPlayed(gs, t) == {i \in 1..Len(gs) : t \in Range(gs[i].config[1].ai_types)}

\* of the games gs, those won by a seat of agent type t
GamesWon(gs, t) ==
    {i \in 1..Len(gs) :
        LET winner == gs[i].result[1].winner
            ai_types == gs[i].config[1].ai_types
        IN /\ winner \in 0..(Len(ai_types) - 1)
           /\ ai_types[winner + 1] = t}

\* the seats agent type t held in the games gs
SeatsHeld(gs, t) ==
    {p \in UNION {{<<i, k>> : k \in 1..Len(gs[i].config[1].ai_types)} : i \in 1..Len(gs)} :
        gs[p[1]].config[1].ai_types[p[2]] = t}

\* the ratio r is the percentage of part in whole
IsPct(r, part, whole) == r.num * whole = 100 * part * r.den

-----------------------------------------------------------------------------
\* the export has written its file
Exported == pc = "exported" /\ WarningsOf("export") = <<>>

\* the number of positions of the list rows that hold row
Occurrences(rows, row) == Cardinality({k \in 1..Len(rows) : rows[k] = row})

\* C16: an export that wrote its file wrote one row per bid sample (the rows
\* are the rows of the bid samples, each as often as it occurs among them), in
\* ascending order of (game id, round index, seat) whatever the order of the
\* bid samples, and the highest-bidder, chose-trump and bonus-awarded columns
\* of every row are 1 or 0
C16_Thm ==
    Exported =>
        LET rows_of_samples == [k \in 1..Len(bid_samples) |-> csv_row(bid_samples[k])] IN
        /\ Len(csv_rows) = Len(bid_samples)
        /\ \A row \in Range(csv_rows) \cup Range(rows_of_samples) :
              Occurrences(csv_rows, row) = Occurrences(rows_of_samples, row)
        /\ \A k \in 1..(Len(csv_rows) - 1) : ~KeyLess(csv_rows[k + 1], csv_rows[k])
        /\ \A k \in 1..Len(csv_rows) :
              /\ csv_rows[k].highest_bidder \in {"1", "0"}
              /\ csv_rows[k].chose_trump \in {"1", "0"}
              /\ csv_rows[k].bonus_awarded \in {"1", "0"}

\* an export of bid samples extracted with a later game before an earlier one
\* and, within a round, a higher seat before a lower one, with both values in
\* a flag column
C16_Witness ==
    /\ Exported
    /\ \E k \in 1..(Len(bid_samples) - 1) :
          bid_samples[k + 1].game_id < bid_samples[k].game_id
    /\ \E k \in 1..Len(csv_rows) : csv_rows[k].highest_bidder = "1"
    /\ \E k \in 1..Len(csv_rows) : csv_rows[k].highest_bidder = "0"

\* an export of bid samples extracted, within a round, with a higher seat
\* before a lower one
C16_SeatsWitness ==
    /\ Exported
    /\ \E k \in 1..(Len(bid_samples) - 1) :
          /\ bid_samples[k + 1].game_id = bid_samples[k].game_id
          /\ bid_samples[k + 1].round_index = bid_samples[k].round_index
          /\ bid_samples[k + 1].seat < bid_samples[k].seat

-----------------------------------------------------------------------------
AuctionPrinted == pc \in {"auction", "calibration", "reported", "exported", "done"}

\* some sample of the group has a known highest_bidder / chose_trump
KnownHighestBidder(samples) ==
    \E k \in 1..Len(samples) : samples[k].highest_bidder # None

KnownChoseTrump(samples) ==
    \E k \in 1..Len(samples) : samples[k].chose_trump # None

\* C17: the auction-dynamics split of an agent type's bid samples is made on
\* highest_bidder whenever some sample of the group has a known
\* highest_bidder, on chose_trump only when no sample has a known
\* highest_bidder and some sample has a known chose_trump, and otherwise not
\* made; the first group is the samples whose field is true, and the two
\* groups are disjoint and together contain every sample of the group
C17_Thm ==
    AuctionPrinted =>
        LET by_ai_type == samples_by_ai_type(bid_samples) IN
        /\ DOMAIN auction = DOMAIN by_ai_type
        /\ \A t \in DOMAIN auction :
              LET samples == by_ai_type[t]
                  split == auction[t]
              IN /\ split.field = "highest_bidder" <=> KnownHighestBidder(samples)
                 /\ split.field = "chose_trump" <=>
                       ~KnownHighestBidder(samples) /\ KnownChoseTrump(samples)
                 /\ split.field = "highest_bidder" =>
                       split.highest
                           = SelectSeq(samples, LAMBDA s : s.highest_bidder = Some(TRUE))
                 /\ split.field = "chose_trump" =>
                       split.highest
                           = SelectSeq(samples, LAMBDA s : s.chose_trump = Some(TRUE))
                 /\ split.field # "none" =>
                       /\ Range(split.highest) \cap Range(split.not_highest) = {}
                       /\ Len(split.highest) + Len(split.not_highest) = Len(samples)
                       /\ \A s \in Range(samples) :
                             Occurrences(split.highest, s)
                                 + Occurrences(split.not_highest, s)
                                 = Occurrences(samples, s)

\* a split on highest_bidder, into two non-empty groups, of a group in which
\* highest_bidder is unknown for some sample and chose_trump is known for some
C17_Witness ==
    /\ AuctionPrinted
    /\ \E t \in DOMAIN auction :
          /\ auction[t].field = "highest_bidder"
          /\ auction[t].highest # <<>> /\ auction[t].not_highest # <<>>
          /\ KnownChoseTrump(samples_by_ai_type(bid_samples)[t])
          /\ \E s \in Range(samples_by_ai_type(bid_samples)[t]) : s.highest_bidder = None

\* a group with neither field known is not split
C17_NoneWitness ==
    /\ AuctionPrinted
    /\ \E t \in DOMAIN auction : auction[t].field = "none"

\* the extractor takes the highest bidder from trump_selector when it is
\* known, so a sample with a known chose_trump has a known highest_bidder and
\* no group is split on chose_trump
FallbackUnused ==
    /\ \A k \in 1..Len(bid_samples) :
          bid_samples[k].chose_trump # None => bid_samples[k].highest_bidder # None
    /\ AuctionPrinted => \A t \in DOMAIN auction : auction[t].field # "chose_trump"

\* C18: a bid sample whose highest_bidder is unknown is never counted in the
\* 'Not highest bidder' group of the auction-dynamics section: the members of
\* that group are exactly the samples known not to be the highest bidder
C18_Claim ==
    AuctionPrinted =>
        \A t \in DOMAIN auction :
            auction[t].field # "none" =>
                /\ \A s \in Range(auction[t].not_highest) : s.highest_bidder # None
                /\ auction[t].not_highest
                       = SelectSeq(samples_by_ai_type(bid_samples)[t],
                                   LAMBDA s : s.highest_bidder = Some(FALSE))

====
